---- MODULE Spec2Model ----
(***************************************************************************)
(* Style resolution (Style accessors, InheritFrom, renderer pushes) and    *)
(* text wrapping (WrapFit, WrapFitWord, WrapFitRune) of go-chart.          *)
(*                                                                         *)
(* A string is a sequence of codepoints (Go iterates a string by rune).    *)
(* Colors, fonts, paddings and float64 attributes are small naturals whose *)
(* value 0 is the type's zero value (Color.IsZero, nil font, Box.IsZero,   *)
(* 0.0).  Every renderer call is logged as <<name, numbers passed>>.       *)
(***************************************************************************)
EXTENDS Integers, Sequences, FiniteSets

VARIABLES s, d, recv, final, n, style, value, width, wrapOption, output, locals, calls, op

vars == <<s, d, recv, final, n, style, value, width, wrapOption, output, locals, calls, op>>

(***************************************************************************)
(* Bounds of the checked instance.                                         *)
(***************************************************************************)
MaxLen == 4
MaxWidth == 5
MaxFlip == 1
MaxCascade == 2

(***************************************************************************)
(* Enums of text.go.                                                       *)
(***************************************************************************)
TextHorizontalAlignUnset == 0
TextHorizontalAlignLeft == 1
TextWrapUnset == 0
TextWrapNone == 1
TextWrapWord == 2
TextWrapRune == 3
TextVerticalAlignUnset == 0
TextVerticalAlignBaseline == 1

(***************************************************************************)
(* Built-in defaults the accessors fall back to.                           *)
(***************************************************************************)
DefaultStrokeWidth == 3
DefaultFontSize == 10
ColorTransparent == 255

(***************************************************************************)
(* Style: the zero value of the struct.                                    *)
(***************************************************************************)
ZeroStyle ==
  [Show |-> FALSE, Padding |-> 0, StrokeWidth |-> 0, StrokeColor |-> 0,
   StrokeDashArray |-> <<>>, FillColor |-> 0, FontSize |-> 0, FontColor |-> 0,
   Font |-> 0, TextHorizontalAlign |-> TextHorizontalAlignUnset,
   TextVerticalAlign |-> TextVerticalAlignUnset, TextWrap |-> TextWrapUnset]

(***************************************************************************)
(* Accessors.  defaults is the variadic argument list: empty or not.       *)
(***************************************************************************)
GetStrokeColor(st, defaults) ==
  IF st.StrokeColor = 0
    THEN IF Len(defaults) > 0 THEN defaults[1] ELSE ColorTransparent
    ELSE st.StrokeColor

GetFillColor(st, defaults) ==
  IF st.FillColor = 0
    THEN IF Len(defaults) > 0 THEN defaults[1] ELSE ColorTransparent
    ELSE st.FillColor

GetStrokeWidth(st, defaults) ==
  IF st.StrokeWidth = 0
    THEN IF Len(defaults) > 0 THEN defaults[1] ELSE DefaultStrokeWidth
    ELSE st.StrokeWidth

GetStrokeDashArray(st, defaults) ==
  IF Len(st.StrokeDashArray) = 0
    THEN IF Len(defaults) > 0 THEN defaults[1] ELSE <<>>
    ELSE st.StrokeDashArray

GetFontSize(st, defaults) ==
  IF st.FontSize = 0
    THEN IF Len(defaults) > 0 THEN defaults[1] ELSE DefaultFontSize
    ELSE st.FontSize

GetFontColor(st, defaults) ==
  IF st.FontColor = 0
    THEN IF Len(defaults) > 0 THEN defaults[1] ELSE ColorTransparent
    ELSE st.FontColor

GetFont(st, defaults) ==
  IF st.Font = 0
    THEN IF Len(defaults) > 0 THEN defaults[1] ELSE 0
    ELSE st.Font

GetPadding(st, defaults) ==
  IF st.Padding = 0
    THEN IF Len(defaults) > 0 THEN defaults[1] ELSE 0
    ELSE st.Padding

GetTextHorizontalAlign(st, defaults) ==
  IF st.TextHorizontalAlign = TextHorizontalAlignUnset
    THEN IF Len(defaults) > 0 THEN defaults[1] ELSE TextHorizontalAlignLeft
    ELSE st.TextHorizontalAlign

GetTextVerticalAlign(st, defaults) ==
  IF st.TextVerticalAlign = TextVerticalAlignUnset
    THEN IF Len(defaults) > 0 THEN defaults[1] ELSE TextVerticalAlignBaseline
    ELSE st.TextVerticalAlign

GetTextWrapSkipsUnsetDefault(st, defaults) ==
  IF st.TextWrap = TextWrapUnset
    THEN IF Len(defaults) > 0 /\ defaults[1] # TextWrapUnset THEN defaults[1] ELSE TextWrapWord
    ELSE st.TextWrap

GetTextWrap(st, defaults) ==
  IF st.TextWrap = TextWrapUnset
    THEN IF Len(defaults) > 0 THEN defaults[1] ELSE TextWrapWord
    ELSE st.TextWrap

(***************************************************************************)
(* InheritFrom: the named result starts as the zero Style; Show is never   *)
(* assigned.                                                               *)
(***************************************************************************)
InheritFromCrossed(st, defaults) ==
  [ZeroStyle EXCEPT
     !.StrokeColor = GetStrokeColor(st, <<defaults.StrokeColor>>),
     !.StrokeWidth = GetFontSize(st, <<defaults.StrokeWidth>>),
     !.StrokeDashArray = GetStrokeDashArray(st, <<defaults.StrokeDashArray>>),
     !.FillColor = GetFillColor(st, <<defaults.FillColor>>),
     !.FontColor = GetFontColor(st, <<defaults.FontColor>>),
     !.FontSize = GetStrokeWidth(st, <<defaults.FontSize>>),
     !.Font = GetFont(st, <<defaults.Font>>),
     !.Padding = GetPadding(st, <<defaults.Padding>>),
     !.TextHorizontalAlign = GetTextHorizontalAlign(st, <<defaults.TextHorizontalAlign>>),
     !.TextVerticalAlign = GetTextVerticalAlign(st, <<defaults.TextVerticalAlign>>),
     !.TextWrap = GetTextWrap(st, <<defaults.TextWrap>>)]

InheritFromDefaultsWin(st, defaults) ==
  [ZeroStyle EXCEPT
     !.StrokeColor = GetStrokeColor(defaults, <<st.StrokeColor>>),
     !.StrokeWidth = GetStrokeWidth(defaults, <<st.StrokeWidth>>),
     !.StrokeDashArray = GetStrokeDashArray(defaults, <<st.StrokeDashArray>>),
     !.FillColor = GetFillColor(defaults, <<st.FillColor>>),
     !.FontColor = GetFontColor(defaults, <<st.FontColor>>),
     !.FontSize = GetFontSize(defaults, <<st.FontSize>>),
     !.Font = GetFont(defaults, <<st.Font>>),
     !.Padding = GetPadding(defaults, <<st.Padding>>),
     !.TextHorizontalAlign = GetTextHorizontalAlign(defaults, <<st.TextHorizontalAlign>>),
     !.TextVerticalAlign = GetTextVerticalAlign(defaults, <<st.TextVerticalAlign>>),
     !.TextWrap = GetTextWrap(defaults, <<st.TextWrap>>)]

InheritFrom(st, defaults) ==
  [ZeroStyle EXCEPT
     !.StrokeColor = GetStrokeColor(st, <<defaults.StrokeColor>>),
     !.StrokeWidth = GetStrokeWidth(st, <<defaults.StrokeWidth>>),
     !.StrokeDashArray = GetStrokeDashArray(st, <<defaults.StrokeDashArray>>),
     !.FillColor = GetFillColor(st, <<defaults.FillColor>>),
     !.FontColor = GetFontColor(st, <<defaults.FontColor>>),
     !.FontSize = GetFontSize(st, <<defaults.FontSize>>),
     !.Font = GetFont(st, <<defaults.Font>>),
     !.Padding = GetPadding(st, <<defaults.Padding>>),
     !.TextHorizontalAlign = GetTextHorizontalAlign(st, <<defaults.TextHorizontalAlign>>),
     !.TextVerticalAlign = GetTextVerticalAlign(st, <<defaults.TextVerticalAlign>>),
     !.TextWrap = GetTextWrap(st, <<defaults.TextWrap>>)]

(***************************************************************************)
(* Renderer pushes: the setter calls of each method, in program order.     *)
(***************************************************************************)
WriteToRenderer(st) ==
  << <<"SetStrokeColor", <<GetStrokeColor(st, <<>>)>> >>,
     <<"SetStrokeWidth", <<GetStrokeWidth(st, <<>>)>> >>,
     <<"SetStrokeDashArray", GetStrokeDashArray(st, <<>>)>>,
     <<"SetFillColor", <<GetFillColor(st, <<>>)>> >>,
     <<"SetFont", <<GetFont(st, <<>>)>> >>,
     <<"SetFontColor", <<GetFontColor(st, <<>>)>> >>,
     <<"SetFontSize", <<GetFontSize(st, <<>>)>> >> >>

WriteDrawingOptionsToRenderer(st) ==
  << <<"SetStrokeColor", <<GetStrokeColor(st, <<>>)>> >>,
     <<"SetStrokeWidth", <<GetStrokeWidth(st, <<>>)>> >>,
     <<"SetStrokeDashArray", GetStrokeDashArray(st, <<>>)>>,
     <<"SetFillColor", <<GetFillColor(st, <<>>)>> >> >>

WriteTextOptionsToRendererSizeFirst(st) ==
  << <<"SetFontSize", <<GetFontSize(st, <<>>)>> >>,
     <<"SetFont", <<GetFont(st, <<>>)>> >>,
     <<"SetFontColor", <<GetFontColor(st, <<>>)>> >> >>

WriteTextOptionsToRenderer(st) ==
  << <<"SetFont", <<GetFont(st, <<>>)>> >>,
     <<"SetFontColor", <<GetFontColor(st, <<>>)>> >>,
     <<"SetFontSize", <<GetFontSize(st, <<>>)>> >> >>

(***************************************************************************)
(* Renderer.MeasureText(...).Width(): the sum of fixed positive            *)
(* per-codepoint widths; 'W' is a wide glyph.                              *)
(***************************************************************************)
RuneWidth(c) == IF c = 87 THEN 2 ELSE 1

RECURSIVE MeasureText(_)
MeasureText(text) ==
  IF text = <<>> THEN 0 ELSE RuneWidth(Head(text)) + MeasureText(Tail(text))

(***************************************************************************)
(* Trim: strings.Trim(value, " \t\n\r").                                   *)
(***************************************************************************)
TrimCutset == {32, 9, 10, 13}

RECURSIVE TrimLeft(_)
TrimLeft(text) ==
  IF text # <<>> /\ Head(text) \in TrimCutset THEN TrimLeft(Tail(text)) ELSE text

RECURSIVE TrimRight(_)
TrimRight(text) ==
  IF text # <<>> /\ text[Len(text)] \in TrimCutset
    THEN TrimRight(SubSeq(text, 1, Len(text) - 1))
    ELSE text

Trim(text) == TrimRight(TrimLeft(text))

(***************************************************************************)
(* appendLast.                                                             *)
(***************************************************************************)
appendLastAsNewLine(lines, text) == Append(lines, text)

appendLast(lines, text) ==
  IF Len(lines) = 0
    THEN <<text>>
    ELSE [lines EXCEPT ![Len(lines)] = lines[Len(lines)] \o text]

(***************************************************************************)
(* WrapFitWord: one iteration of the loop over the codepoints of value.    *)
(* loc holds the locals output, line, word and the renderer calls so far.  *)
(***************************************************************************)
WordStepDropsWord(loc, c, w) ==
  IF c = 10
    THEN [loc EXCEPT !.output = Append(@, Trim(loc.line \o loc.word)),
                     !.line = <<>>, !.word = <<>>]
    ELSE LET m == loc.line \o loc.word \o <<c>>
             l1 == [loc EXCEPT !.calls = Append(@, <<"MeasureText", m>>)]
         IN  IF MeasureText(m) >= w
               THEN [l1 EXCEPT !.output = Append(@, Trim(loc.line)),
                               !.line = <<>>, !.word = <<c>>]
               ELSE IF c = 32 \/ c = 9
                 THEN [l1 EXCEPT !.line = m, !.word = <<>>]
                 ELSE [l1 EXCEPT !.word = Append(@, c)]

WordStepMeasuresBeforeRune(loc, c, w) ==
  IF c = 10
    THEN [loc EXCEPT !.output = Append(@, Trim(loc.line \o loc.word)),
                     !.line = <<>>, !.word = <<>>]
    ELSE LET m == loc.line \o loc.word
             l1 == [loc EXCEPT !.calls = Append(@, <<"MeasureText", m>>)]
         IN  IF MeasureText(m) >= w
               THEN [l1 EXCEPT !.output = Append(@, Trim(loc.line)),
                               !.line = loc.word, !.word = <<c>>]
               ELSE IF c = 32 \/ c = 9
                 THEN [l1 EXCEPT !.line = m \o <<c>>, !.word = <<>>]
                 ELSE [l1 EXCEPT !.word = Append(@, c)]

WordStep(loc, c, w) ==
  IF c = 10
    THEN [loc EXCEPT !.output = Append(@, Trim(loc.line \o loc.word)),
                     !.line = <<>>, !.word = <<>>]
    ELSE LET m == loc.line \o loc.word \o <<c>>
             l1 == [loc EXCEPT !.calls = Append(@, <<"MeasureText", m>>)]
         IN  IF MeasureText(m) >= w
               THEN [l1 EXCEPT !.output = Append(@, Trim(loc.line)),
                               !.line = loc.word, !.word = <<c>>]
               ELSE IF c = 32 \/ c = 9
                 THEN [l1 EXCEPT !.line = m, !.word = <<>>]
                 ELSE [l1 EXCEPT !.word = Append(@, c)]

RECURSIVE WordScan(_, _, _, _)
WordScan(text, i, loc, w) ==
  IF i > Len(text) THEN loc ELSE WordScan(text, i + 1, WordStep(loc, text[i], w), w)

(***************************************************************************)
(* WrapFitWord: style push, scan, final trimmed line.  The result carries  *)
(* the returned lines, the renderer calls and the locals at loop exit.     *)
(***************************************************************************)
WrapFitWord(text, w, st) ==
  LET loc == WordScan(text, 1,
               [output |-> <<>>, line |-> <<>>, word |-> <<>>,
                calls |-> WriteToRenderer(st)], w)
  IN  [output |-> Append(loc.output, Trim(loc.line \o loc.word)),
       calls |-> loc.calls,
       locals |-> [output |-> loc.output, line |-> loc.line, word |-> loc.word]]

(***************************************************************************)
(* WrapFitRune.                                                            *)
(***************************************************************************)
RuneStep(loc, c, w) ==
  IF c = 10
    THEN [loc EXCEPT !.output = Append(@, loc.line), !.line = <<>>]
    ELSE LET m == loc.line \o <<c>>
             l1 == [loc EXCEPT !.calls = Append(@, <<"MeasureText", m>>)]
         IN  IF MeasureText(m) >= w
               THEN [l1 EXCEPT !.output = Append(@, loc.line), !.line = <<c>>]
               ELSE [l1 EXCEPT !.line = m]

RECURSIVE RuneScan(_, _, _, _)
RuneScan(text, i, loc, w) ==
  IF i > Len(text) THEN loc ELSE RuneScan(text, i + 1, RuneStep(loc, text[i], w), w)

WrapFitRune(text, w, st) ==
  LET loc == RuneScan(text, 1,
               [output |-> <<>>, line |-> <<>>, word |-> <<>>,
                calls |-> WriteToRenderer(st)], w)
  IN  [output |-> appendLast(loc.output, loc.line),
       calls |-> loc.calls,
       locals |-> [output |-> loc.output, line |-> loc.line, word |-> loc.word]]

(***************************************************************************)
(* WrapFit: measures the whole value first, then dispatches.               *)
(***************************************************************************)
NoLocals == [output |-> <<>>, line |-> <<>>, word |-> <<>>]

WrapFitBreaksAtWidth(text, w, st, mode) ==
  LET first == << <<"MeasureText", text>> >>
      inner == IF mode = TextWrapRune THEN WrapFitRune(text, w, st)
                                      ELSE WrapFitWord(text, w, st)
  IN  IF MeasureText(text) >= w /\ mode \in {TextWrapRune, TextWrapWord}
        THEN [inner EXCEPT !.calls = first \o @]
        ELSE [output |-> <<text>>, calls |-> first, locals |-> NoLocals]

WrapFit(text, w, st, mode) ==
  LET first == << <<"MeasureText", text>> >>
      inner == IF mode = TextWrapRune THEN WrapFitRune(text, w, st)
                                      ELSE WrapFitWord(text, w, st)
  IN  IF MeasureText(text) > w /\ mode \in {TextWrapRune, TextWrapWord}
        THEN [inner EXCEPT !.calls = first \o @]
        ELSE [output |-> <<text>>, calls |-> first, locals |-> NoLocals]

(***************************************************************************)
(* Inputs.                                                                 *)
(***************************************************************************)
Alphabet == {97, 87, 32, 9, 10, 13}

abcdefg == <<97, 98, 99, 100, 101, 102, 103>>

Texts == UNION {[1..k -> Alphabet] : k \in 0..MaxLen} \cup {abcdefg}

Attrs == {"Show", "Padding", "StrokeWidth", "StrokeColor", "StrokeDashArray",
          "FillColor", "FontSize", "FontColor", "Font", "TextHorizontalAlign",
          "TextVerticalAlign", "TextWrap"}

StyleOf(setAttrs, v) ==
  [Show |-> "Show" \in setAttrs,
   Padding |-> IF "Padding" \in setAttrs THEN v ELSE 0,
   StrokeWidth |-> IF "StrokeWidth" \in setAttrs THEN v ELSE 0,
   StrokeColor |-> IF "StrokeColor" \in setAttrs THEN v ELSE 0,
   StrokeDashArray |-> IF "StrokeDashArray" \in setAttrs THEN <<v>> ELSE <<>>,
   FillColor |-> IF "FillColor" \in setAttrs THEN v ELSE 0,
   FontSize |-> IF "FontSize" \in setAttrs THEN v ELSE 0,
   FontColor |-> IF "FontColor" \in setAttrs THEN v ELSE 0,
   Font |-> IF "Font" \in setAttrs THEN v ELSE 0,
   TextHorizontalAlign |-> IF "TextHorizontalAlign" \in setAttrs THEN v ELSE 0,
   TextVerticalAlign |-> IF "TextVerticalAlign" \in setAttrs THEN v ELSE 0,
   TextWrap |-> IF "TextWrap" \in setAttrs THEN v ELSE 0]

Flips == {f \in SUBSET Attrs : Cardinality(f) <= MaxFlip}

Styles == {StyleOf(f, v) : f \in Flips, v \in {1, 2}}
            \cup {StyleOf(Attrs \ f, v) : f \in Flips, v \in {1, 2}}

TextStyles == {ZeroStyle, StyleOf(Attrs, 1)}

(***************************************************************************)
(* Text layout: one call of a Text utility on a value and a width.         *)
(***************************************************************************)
Init ==
  /\ value \in Texts
  /\ width \in 0..MaxWidth
  /\ s = ZeroStyle /\ d = ZeroStyle /\ recv = ZeroStyle /\ final = ZeroStyle
  /\ n = 0
  /\ style = ZeroStyle
  /\ wrapOption = TextWrapUnset
  /\ output = <<>>
  /\ locals = NoLocals
  /\ calls = <<>>
  /\ op = "none"

CallWrapFit(st, mode) ==
  LET r == WrapFit(value, width, st, mode)
  IN  /\ op = "none"
      /\ output' = r.output /\ calls' = r.calls /\ locals' = r.locals
      /\ style' = st /\ wrapOption' = mode /\ op' = "WrapFit"
      /\ UNCHANGED <<s, d, recv, final, n, value, width>>

CallWrapFitWord(st) ==
  LET r == WrapFitWord(value, width, st)
  IN  /\ op = "none"
      /\ output' = r.output /\ calls' = r.calls /\ locals' = r.locals
      /\ style' = st /\ op' = "WrapFitWord"
      /\ UNCHANGED <<s, d, recv, final, n, value, width, wrapOption>>

CallWrapFitRune(st) ==
  LET r == WrapFitRune(value, width, st)
  IN  /\ op = "none"
      /\ output' = r.output /\ calls' = r.calls /\ locals' = r.locals
      /\ style' = st /\ op' = "WrapFitRune"
      /\ UNCHANGED <<s, d, recv, final, n, value, width, wrapOption>>

Next ==
  \/ \E st \in TextStyles, mode \in TextWrapUnset..TextWrapRune : CallWrapFit(st, mode)
  \/ \E st \in TextStyles : CallWrapFitWord(st)
  \/ \E st \in TextStyles : CallWrapFitRune(st)

Spec == Init /\ [][Next]_vars

(***************************************************************************)
(* Style: cascades and renderer pushes of a chart element.                 *)
(***************************************************************************)
InitStyle ==
  /\ s \in Styles /\ d \in Styles
  /\ recv = s /\ final = ZeroStyle
  /\ n = 0
  /\ style = ZeroStyle
  /\ value = <<>> /\ width = 0
  /\ wrapOption = TextWrapUnset
  /\ output = <<>>
  /\ locals = NoLocals
  /\ calls = <<>>
  /\ op = "none"

Current == IF n = 0 THEN s ELSE final

CallInheritFrom ==
  /\ n < MaxCascade
  /\ recv' = Current
  /\ final' = InheritFrom(Current, d)
  /\ n' = n + 1
  /\ op' = "InheritFrom"
  /\ UNCHANGED <<s, d, style, value, width, wrapOption, output, locals, calls>>

CallWriteToRenderer ==
  /\ calls' = WriteToRenderer(Current)
  /\ style' = Current
  /\ op' = "WriteToRenderer"
  /\ UNCHANGED <<s, d, recv, final, n, value, width, wrapOption, output, locals>>

CallWriteDrawingOptionsToRenderer ==
  /\ calls' = WriteDrawingOptionsToRenderer(Current)
  /\ style' = Current
  /\ op' = "WriteDrawingOptionsToRenderer"
  /\ UNCHANGED <<s, d, recv, final, n, value, width, wrapOption, output, locals>>

CallWriteTextOptionsToRenderer ==
  /\ calls' = WriteTextOptionsToRenderer(Current)
  /\ style' = Current
  /\ op' = "WriteTextOptionsToRenderer"
  /\ UNCHANGED <<s, d, recv, final, n, value, width, wrapOption, output, locals>>

NextStyle ==
  \/ CallInheritFrom
  \/ CallWriteToRenderer
  \/ CallWriteDrawingOptionsToRenderer
  \/ CallWriteTextOptionsToRenderer

SpecStyle == InitStyle /\ [][NextStyle]_vars

(***************************************************************************)
(* Helpers of the properties.                                              *)
(***************************************************************************)
Whitespace == {32, 9, 10, 13}

\* The codepoints at which WrapFitWord ends a word or a line.
WordBreaks == {32, 9, 10}

RECURSIVE Concat(_)
Concat(lines) == IF lines = <<>> THEN <<>> ELSE Head(lines) \o Concat(Tail(lines))

RECURSIVE Remove(_, _)
Remove(text, set) ==
  IF text = <<>> THEN <<>>
  ELSE IF Head(text) \in set THEN Remove(Tail(text), set)
  ELSE <<Head(text)>> \o Remove(Tail(text), set)

\* The maximal runs of codepoints outside seps, in order.
RECURSIVE WordsFrom(_, _, _)
WordsFrom(text, cur, seps) ==
  IF text = <<>> THEN (IF cur = <<>> THEN <<>> ELSE <<cur>>)
  ELSE IF Head(text) \in seps
    THEN (IF cur = <<>> THEN <<>> ELSE <<cur>>) \o WordsFrom(Tail(text), <<>>, seps)
    ELSE WordsFrom(Tail(text), Append(cur, Head(text)), seps)

Words(text, seps) == WordsFrom(text, <<>>, seps)

RECURSIVE WordsOfLines(_, _)
WordsOfLines(lines, seps) ==
  IF lines = <<>> THEN <<>> ELSE Words(Head(lines), seps) \o WordsOfLines(Tail(lines), seps)

Range(f) == {f[i] : i \in DOMAIN f}

AllSet(st) ==
  /\ st.Show /\ st.Padding # 0 /\ st.StrokeWidth # 0 /\ st.StrokeColor # 0
  /\ st.StrokeDashArray # <<>> /\ st.FillColor # 0 /\ st.FontSize # 0
  /\ st.FontColor # 0 /\ st.Font # 0
  /\ st.TextHorizontalAlign # TextHorizontalAlignUnset
  /\ st.TextVerticalAlign # TextVerticalAlignUnset
  /\ st.TextWrap # TextWrapUnset

OwnOr(own, zero, builtin) == IF own = zero THEN builtin ELSE own

Names(log) == [i \in DOMAIN log |-> log[i][1]]

(***************************************************************************)
(* C1 as stated: when every attribute of s is set, s.InheritFrom(d) equals *)
(* s attribute for attribute, the visibility flag included.                *)
(***************************************************************************)
C1_OwnValuesWinEverywhere == (n = 1 /\ AllSet(recv)) => final = recv

\* C1 amended: when every attribute of s is set, s.InheritFrom(d) equals s on
\* every attribute except the visibility flag, which the result leaves false.
C1_OwnValuesWinExceptShow ==
  (n = 1 /\ AllSet(recv)) => final = [recv EXCEPT !.Show = FALSE]

C1_Witness ==
  /\ n = 1 /\ AllSet(recv) /\ AllSet(d) /\ d.StrokeWidth # recv.StrokeWidth
  /\ final.StrokeWidth = recv.StrokeWidth

(***************************************************************************)
(* C2 as stated: cascading the zero Style gives, per attribute, d's value  *)
(* when d has it set and the built-in default when d has it unset.         *)
(***************************************************************************)
C2_UnsetFallsToBuiltin ==
  (n = 1 /\ recv = ZeroStyle) =>
    /\ d.Show => final.Show
    /\ final.Padding = d.Padding
    /\ final.Font = d.Font
    /\ final.StrokeDashArray = d.StrokeDashArray
    /\ final.StrokeWidth = OwnOr(d.StrokeWidth, 0, DefaultStrokeWidth)
    /\ final.FontSize = OwnOr(d.FontSize, 0, DefaultFontSize)
    /\ final.StrokeColor = OwnOr(d.StrokeColor, 0, ColorTransparent)
    /\ final.FillColor = OwnOr(d.FillColor, 0, ColorTransparent)
    /\ final.FontColor = OwnOr(d.FontColor, 0, ColorTransparent)
    /\ final.TextHorizontalAlign =
         OwnOr(d.TextHorizontalAlign, TextHorizontalAlignUnset, TextHorizontalAlignLeft)
    /\ final.TextVerticalAlign =
         OwnOr(d.TextVerticalAlign, TextVerticalAlignUnset, TextVerticalAlignBaseline)
    /\ final.TextWrap = OwnOr(d.TextWrap, TextWrapUnset, TextWrapWord)

\* C2 amended: cascading the zero Style copies every attribute of d except the
\* visibility flag exactly as it is, set or unset (an attribute d leaves unset
\* stays unset, no built-in default is filled in); the visibility flag is false.
C2_UnsetReproducesDefaults ==
  (n = 1 /\ recv = ZeroStyle) => final = [d EXCEPT !.Show = FALSE]

C2_Witness ==
  /\ n = 1 /\ recv = ZeroStyle
  /\ d.StrokeWidth # 0 /\ final.StrokeWidth = d.StrokeWidth
  /\ d.TextWrap = TextWrapUnset /\ final.TextWrap = TextWrapUnset

(***************************************************************************)
(* C3: the cascade is idempotent: cascading the result of s.InheritFrom(d) *)
(* over the same d returns that result unchanged.                          *)
(***************************************************************************)
C3_CascadeIdempotent == n >= 2 => final = recv

C3_Witness ==
  /\ n = 2 /\ final = recv /\ recv # [s EXCEPT !.Show = FALSE]
  /\ recv # [d EXCEPT !.Show = FALSE]

(***************************************************************************)
(* C4 as stated: WrapFitWord never splits inside a word: the words read    *)
(* off the output lines in order are the words of the input in order.      *)
(***************************************************************************)
C4_WordsNeverSplit ==
  op = "WrapFitWord" => WordsOfLines(output, Whitespace) = Words(value, Whitespace)

(***************************************************************************)
(* C5: WrapFitRune merges the tail: for newline-free input the remainder   *)
(* is concatenated onto the last committed line when a line was committed  *)
(* (as many output lines as commits) and is the sole line otherwise; with  *)
(* a width fitting exactly 3 characters "abcdefg" gives "abc", "defg".     *)
(***************************************************************************)
C5_RuneTailMerged ==
  (op = "WrapFitRune" /\ 10 \notin Range(value)) =>
    /\ IF Len(locals.output) = 0
         THEN output = <<locals.line>>
         ELSE /\ Len(output) = Len(locals.output)
              /\ \A i \in 1..(Len(output) - 1) : output[i] = locals.output[i]
              /\ output[Len(output)] = locals.output[Len(output)] \o locals.line
    /\ (value = abcdefg /\ width = 4) =>
         /\ locals.output = << <<97, 98, 99>>, <<100, 101, 102>> >>
         /\ locals.line = <<103>>
         /\ output = << <<97, 98, 99>>, <<100, 101, 102, 103>> >>

C5_Witness ==
  /\ op = "WrapFitRune" /\ value = abcdefg /\ width = 4
  /\ output = << <<97, 98, 99>>, <<100, 101, 102, 103>> >>

(***************************************************************************)
(* C6: WrapFit returns the one-element sequence holding the unmodified     *)
(* text when the text's width does not exceed maxWidth or the mode is      *)
(* neither word nor rune; otherwise it returns what WrapFitWord or         *)
(* WrapFitRune returns for the mode.                                       *)
(***************************************************************************)
C6_WrapFitPassThrough ==
  op = "WrapFit" =>
    IF MeasureText(value) <= width \/ wrapOption \notin {TextWrapWord, TextWrapRune}
      THEN output = <<value>>
      ELSE IF wrapOption = TextWrapWord
        THEN WrapFitWord(value, width, style).output = output
        ELSE WrapFitRune(value, width, style).output = output

C6_Witness ==
  /\ op = "WrapFit" /\ wrapOption = TextWrapWord
  /\ MeasureText(value) = width /\ Len(value) >= 3
  /\ value[1] = 32 /\ 10 \in Range(value)
  /\ output = <<value>>

(***************************************************************************)
(* C7: every line WrapFitWord returns has measured width at most maxWidth, *)
(* unless the input contains an unbroken word wider than maxWidth.         *)
(***************************************************************************)
C7_WordLinesBounded ==
  op = "WrapFitWord" =>
    \/ \A i \in DOMAIN output : MeasureText(output[i]) <= width
    \/ \E i \in DOMAIN Words(value, Whitespace) :
         MeasureText(Words(value, Whitespace)[i]) > width

\* C7 amended: for a non-negative maxWidth, every line WrapFitWord returns has
\* measured width at most maxWidth, unless the input contains a run of
\* codepoints free of spaces, tabs and newlines (a carriage return does not end
\* a word) wider than maxWidth.
C7_WordLinesBoundedBetweenBreaks ==
  op = "WrapFitWord" =>
    \/ \A i \in DOMAIN output : MeasureText(output[i]) <= width
    \/ \E i \in DOMAIN Words(value, WordBreaks) :
         MeasureText(Words(value, WordBreaks)[i]) > width

C7_Witness ==
  /\ op = "WrapFitWord" /\ Len(output) >= 2 /\ MeasureText(value) > width
  /\ \A i \in DOMAIN Words(value, WordBreaks) :
       MeasureText(Words(value, WordBreaks)[i]) <= width
  /\ \E i \in DOMAIN output : MeasureText(output[i]) = width

(***************************************************************************)
(* C8: each push issues exactly its setters, in the fixed order, each with *)
(* the resolved value (own value if set, else the built-in default).       *)
(***************************************************************************)
C8_PushOrder ==
  LET drawing == << <<"SetStrokeColor", <<OwnOr(style.StrokeColor, 0, ColorTransparent)>> >>,
                    <<"SetStrokeWidth", <<OwnOr(style.StrokeWidth, 0, DefaultStrokeWidth)>> >>,
                    <<"SetStrokeDashArray", style.StrokeDashArray>>,
                    <<"SetFillColor", <<OwnOr(style.FillColor, 0, ColorTransparent)>> >> >>
      text == << <<"SetFont", <<style.Font>> >>,
                 <<"SetFontColor", <<OwnOr(style.FontColor, 0, ColorTransparent)>> >>,
                 <<"SetFontSize", <<OwnOr(style.FontSize, 0, DefaultFontSize)>> >> >>
  IN  /\ op = "WriteToRenderer" => calls = drawing \o text
      /\ op = "WriteDrawingOptionsToRenderer" => calls = drawing
      /\ op = "WriteTextOptionsToRenderer" => calls = text

C8_Witness ==
  /\ op = "WriteTextOptionsToRenderer" /\ n = 1
  /\ style.FontSize = 0 /\ style.FontColor # 0
  /\ Names(calls) = <<"SetFont", "SetFontColor", "SetFontSize">>

(***************************************************************************)
(* C9 as stated: in WrapFit, WrapFitWord and WrapFitRune every MeasureText *)
(* call comes after the call has pushed font, font color and font size.    *)
(***************************************************************************)
C9_MeasureAfterPush ==
  op \in {"WrapFit", "WrapFitWord", "WrapFitRune"} =>
    \A i \in DOMAIN calls :
      calls[i][1] = "MeasureText" =>
        \A setter \in {"SetFont", "SetFontColor", "SetFontSize"} :
          \E j \in 1..(i - 1) : calls[j][1] = setter

(***************************************************************************)
(* C10: wrapping neither loses nor reorders content: the lines of          *)
(* WrapFitRune concatenate to the input without its newlines; the lines of *)
(* WrapFitWord, concatenated and with spaces, tabs, newlines and carriage  *)
(* returns deleted, give the input with the same codepoints deleted.       *)
(***************************************************************************)
C10_ContentPreserved ==
  /\ op = "WrapFitRune" => Concat(output) = Remove(value, {10})
  /\ op = "WrapFitWord" =>
       Remove(Concat(output), Whitespace) = Remove(value, Whitespace)

C10_Witness ==
  /\ op = "WrapFitWord" /\ Len(output) >= 3 /\ 32 \in Range(value)
  /\ Len(Remove(value, Whitespace)) >= 3
  /\ Remove(Concat(output), Whitespace) = Remove(value, Whitespace)

====
